---- MODULE Spec2Model ----
(***************************************************************************)
(* Model of wa2_gen_map.py: create_character_mapping reads two text files, *)
(* walks them in lockstep building char_map and conflict_chars, and writes *)
(* char_map to the output file as JSON or as a Python dict literal; main   *)
(* parses the command line and calls it.                                   *)
(*                                                                         *)
(* A character is a one-character string; a text is a sequence of          *)
(* characters; a file's text is a sequence of lines.                       *)
(***************************************************************************)
EXTENDS Naturals, Integers, Sequences, FiniteSets, TLC

VARIABLES
    pc,             \* position in main / create_character_mapping
    format_type,    \* args.format
    content_a,      \* text read from file A
    content_b,      \* text read from file B
    char_map,       \* dict: source character -> target character
    char_order,     \* insertion order of char_map's keys (a Python dict is ordered)
    conflict_chars, \* dict: source character -> set of target characters
    i,              \* loop index of "for i in range(max_length)", 0-based
    open_files,     \* the file objects that are open
    opens,          \* how many times open() was called on each path
    out_file,       \* the file at output_path
    stdout,         \* the kinds of messages printed, in order
    result,         \* outcome of create_character_mapping
    exit_status,    \* the process's exit status (-1 while running)
    io_fault        \* which I/O operation the environment made fail

vars == <<pc, format_type, content_a, content_b, char_map, char_order,
          conflict_chars, i, open_files, opens, out_file, stdout, result,
          exit_status, io_fault>>

-----------------------------------------------------------------------------
(* Bounds of the model *)

MaxLenA == 3
MaxLenB == 3

NL == "\n"
DQ == "\""
SQ == "'"
BS == "\\"
TAB == "\t"

\* The characters file A and file B are made of.
CharsA == {"a", DQ, NL}
CharsB == {"x", SQ, BS, NL}

Texts(chars, n) == UNION {[1..k -> chars] : k \in 0..n}

-----------------------------------------------------------------------------
(* Helpers of the Python runtime *)

Min(m, n) == IF m < n THEN m ELSE n

EmptyDict == <<>>

\* d[k] = v: a new key goes to the end of the order, an old key keeps its place.
DictSet(d, k, v) == [x \in DOMAIN d \cup {k} |-> IF x = k THEN v ELSE d[x]]

OrderSet(order, d, k) == IF k \in DOMAIN d THEN order ELSE Append(order, k)

NoFile == [exists |-> FALSE, text |-> <<>>]

-----------------------------------------------------------------------------
(* The mapping loop's decisions *)

\* a test that misses a longer file B
LengthMismatchOnlyLongerA(a, b) == Len(a) > Len(b)

\* line 36
LengthMismatch(a, b) == Len(a) # Len(b)

MaxLength(a, b) == Min(Len(a), Len(b))

IsNewline(c) == c = NL

\* a skip test that forgets char_b
SkipIndexOnlyA(a, b) == IsNewline(a)

\* lines 54-57: either character is a newline
SkipIndex(a, b) == IsNewline(a) \/ IsNewline(b)

\* a test under which the last mapping seen wins
NeverConflict(m, a, b) == FALSE

IsConflict(m, a, b) == a \in DOMAIN m /\ m[a] # b

\* a record that keeps only the first two characters
AddConflictFirstTwo(c, m, a, b) ==
    IF a \notin DOMAIN c THEN DictSet(c, a, {m[a], b}) ELSE c

\* a record that starts empty instead of with the mapped character
AddConflictNoFirst(c, m, a, b) ==
    LET start == IF a \notin DOMAIN c THEN {} ELSE c[a]
    IN  DictSet(c, a, start \cup {b})

\* lines 61-63: the set starts with the mapped character, then gets char_b
AddConflict(c, m, a, b) ==
    LET start == IF a \notin DOMAIN c THEN {m[a]} ELSE c[a]
    IN  DictSet(c, a, start \cup {b})

char_a == content_a[i + 1]
char_b == content_b[i + 1]

-----------------------------------------------------------------------------
Init ==
    /\ pc = "main"
    /\ format_type = "json"
    /\ content_a = <<>>
    /\ content_b = <<>>
    /\ char_map = EmptyDict
    /\ char_order = <<>>
    /\ conflict_chars = EmptyDict
    /\ i = 0
    /\ open_files = {}
    /\ opens = [f \in {"a", "b", "out"} |-> 0]
    /\ out_file = NoFile
    /\ stdout = <<>>
    /\ result = "none"
    /\ exit_status = -1
    /\ io_fault = "none"

mapVars == <<char_map, char_order, conflict_chars, i>>
ioVars == <<open_files, opens, out_file>>

\* main: parse_args, then the call of create_character_mapping
MainCall ==
    /\ pc = "main"
    /\ \E f \in {"json", "python"} : format_type' = f
    /\ pc' = "open_a"
    /\ UNCHANGED <<content_a, content_b, mapVars, ioVars, stdout, result,
                   exit_status, io_fault>>

\* the except clause of the reading block
ReadError(fault) ==
    /\ stdout' = Append(stdout, "read_error")
    /\ result' = "False"
    /\ io_fault' = fault
    /\ pc' = "done"

OpenA ==
    /\ pc = "open_a"
    /\ opens' = [opens EXCEPT !["a"] = @ + 1]
    /\ open_files' = open_files \cup {"a"}
    /\ pc' = "read_a"
    /\ UNCHANGED <<format_type, content_a, content_b, mapVars, out_file,
                   stdout, result, exit_status, io_fault>>

OpenAFail ==
    /\ pc = "open_a"
    /\ opens' = [opens EXCEPT !["a"] = @ + 1]
    /\ ReadError("read_a")
    /\ UNCHANGED <<format_type, content_a, content_b, mapVars, open_files,
                   out_file, exit_status>>

\* file_a.read() and the end of the with block
ReadA ==
    /\ pc = "read_a"
    /\ \E t \in Texts(CharsA, MaxLenA) : content_a' = t
    /\ open_files' = open_files \ {"a"}
    /\ pc' = "open_b"
    /\ UNCHANGED <<format_type, content_b, mapVars, opens, out_file, stdout,
                   result, exit_status, io_fault>>

\* a read failure that leaves file_a open (no with block)
ReadAFailLeak ==
    /\ pc = "read_a"
    /\ ReadError("read_a")
    /\ UNCHANGED <<format_type, content_a, content_b, mapVars, ioVars,
                   exit_status>>

\* file_a.read() raises (the bytes are not UTF-8); the with block closes file_a
ReadAFail ==
    /\ pc = "read_a"
    /\ open_files' = open_files \ {"a"}
    /\ ReadError("read_a")
    /\ UNCHANGED <<format_type, content_a, content_b, mapVars, opens,
                   out_file, exit_status>>

OpenB ==
    /\ pc = "open_b"
    /\ opens' = [opens EXCEPT !["b"] = @ + 1]
    /\ open_files' = open_files \cup {"b"}
    /\ pc' = "read_b"
    /\ UNCHANGED <<format_type, content_a, content_b, mapVars, out_file,
                   stdout, result, exit_status, io_fault>>

OpenBFail ==
    /\ pc = "open_b"
    /\ opens' = [opens EXCEPT !["b"] = @ + 1]
    /\ ReadError("read_b")
    /\ UNCHANGED <<format_type, content_a, content_b, mapVars, open_files,
                   out_file, exit_status>>

ReadB ==
    /\ pc = "read_b"
    /\ \E t \in Texts(CharsB, MaxLenB) : content_b' = t
    /\ open_files' = open_files \ {"b"}
    /\ pc' = "len_check"
    /\ UNCHANGED <<format_type, content_a, mapVars, opens, out_file, stdout,
                   result, exit_status, io_fault>>

\* a read failure that is printed and then ignored
ReadBFailIgnored ==
    /\ pc = "read_b"
    /\ open_files' = open_files \ {"b"}
    /\ stdout' = Append(stdout, "read_error")
    /\ io_fault' = "read_b"
    /\ pc' = "len_check"
    /\ UNCHANGED <<format_type, content_a, content_b, mapVars, opens,
                   out_file, result, exit_status>>

ReadBFail ==
    /\ pc = "read_b"
    /\ open_files' = open_files \ {"b"}
    /\ ReadError("read_b")
    /\ UNCHANGED <<format_type, content_a, content_b, mapVars, opens,
                   out_file, exit_status>>

\* lines 36-47: the length warning, the empty dicts, max_length
LenCheck ==
    /\ pc = "len_check"
    /\ stdout' = IF LengthMismatch(content_a, content_b)
                 THEN Append(stdout, "len_warning")
                 ELSE stdout
    /\ char_map' = EmptyDict
    /\ char_order' = <<>>
    /\ conflict_chars' = EmptyDict
    /\ i' = 0
    /\ pc' = "loop"
    /\ UNCHANGED <<format_type, content_a, content_b, ioVars, result,
                   exit_status, io_fault>>

InLoop == pc = "loop" /\ i < MaxLength(content_a, content_b)

\* lines 54-57: continue
SkipNewline ==
    /\ InLoop
    /\ SkipIndex(char_a, char_b)
    /\ i' = i + 1
    /\ UNCHANGED <<pc, format_type, content_a, content_b, char_map,
                   char_order, conflict_chars, ioVars, stdout, result,
                   exit_status, io_fault>>

\* lines 60-64
RecordConflict ==
    /\ InLoop
    /\ ~SkipIndex(char_a, char_b)
    /\ IsConflict(char_map, char_a, char_b)
    /\ conflict_chars' = AddConflict(conflict_chars, char_map, char_a, char_b)
    /\ i' = i + 1
    /\ UNCHANGED <<pc, format_type, content_a, content_b, char_map,
                   char_order, ioVars, stdout, result, exit_status, io_fault>>

\* line 66
StoreMapping ==
    /\ InLoop
    /\ ~SkipIndex(char_a, char_b)
    /\ ~IsConflict(char_map, char_a, char_b)
    /\ char_map' = DictSet(char_map, char_a, char_b)
    /\ char_order' = OrderSet(char_order, char_map, char_a)
    /\ i' = i + 1
    /\ UNCHANGED <<pc, format_type, content_a, content_b, conflict_chars,
                   ioVars, stdout, result, exit_status, io_fault>>

\* the loop is over; lines 69-72 print the conflicts
Report ==
    /\ pc = "loop"
    /\ ~(i < MaxLength(content_a, content_b))
    /\ stdout' = IF conflict_chars # EmptyDict
                 THEN Append(stdout, "conflict_warning")
                 ELSE stdout
    /\ pc' = "open_out"
    /\ UNCHANGED <<format_type, content_a, content_b, mapVars, ioVars,
                   result, exit_status, io_fault>>

-----------------------------------------------------------------------------
(* The serializer *)

\* Unicode code points of the model's characters: str comparison in sorted()
CodePoint(c) ==
    CASE c = TAB -> 9
      [] c = NL  -> 10
      [] c = DQ  -> 34
      [] c = SQ  -> 39
      [] c = BS  -> 92
      [] c = "a" -> 97
      [] c = "x" -> 120

RECURSIVE SortedKeys(_)
\* sorted(char_map.items()): the keys are distinct, so the items sort by key
SortedKeys(keys) ==
    IF keys = {} THEN <<>>
    ELSE LET k == CHOOSE x \in keys :
                      \A y \in keys : CodePoint(x) <= CodePoint(y)
         IN  <<k>> \o SortedKeys(keys \ {k})

\* repr() of a one-character str, with its quotes: double quotes when the
\* string has a single quote and no double quote, single quotes otherwise
PyRepr(c) ==
    LET quote == IF c = SQ THEN DQ ELSE SQ
        body  == CASE c = BS    -> <<BS, BS>>
                   [] c = quote -> <<BS, quote>>
                   [] c = NL    -> <<BS, "n">>
                   [] c = TAB   -> <<BS, "t">>
                   [] OTHER     -> <<c>>
    IN  <<quote>> \o body \o <<quote>>

\* repr(c)[1:-1]
Escaped(c) == SubSeq(PyRepr(c), 2, Len(PyRepr(c)) - 1)

\* f'    "{char_a_escaped}": "{char_b_escaped}",\n'
PyEntry(k, v) ==
    <<" ", " ", " ", " ", DQ>> \o Escaped(k) \o <<DQ, ":", " ", DQ>>
        \o Escaped(v) \o <<DQ, ",">>

PyText(m) ==
    LET keys == SortedKeys(DOMAIN m)
    IN  <<  <<"#", " ", "title">>,
            <<"c", "h", "a", "r", "_", "m", "a", "p", " ", "=", " ", "{">>  >>
        \o [n \in 1..Len(keys) |-> PyEntry(keys[n], m[keys[n]])]
        \o << <<"}">> >>

\* json's string encoder with ensure_ascii=False
JsonEscaped(c) ==
    CASE c = DQ  -> <<BS, DQ>>
      [] c = BS  -> <<BS, BS>>
      [] c = NL  -> <<BS, "n">>
      [] c = TAB -> <<BS, "t">>
      [] OTHER   -> <<c>>

JsonEntry(k, v, last) ==
    <<" ", " ", DQ>> \o JsonEscaped(k) \o <<DQ, ":", " ", DQ>>
        \o JsonEscaped(v) \o <<DQ>> \o (IF last THEN <<>> ELSE <<",">>)

\* json.dump(char_map, output_file, ensure_ascii=False, indent=2): the items
\* come in the dict's insertion order
JsonText(m, order) ==
    IF order = <<>> THEN << <<"{", "}">> >>
    ELSE << <<"{">> >>
         \o [n \in 1..Len(order) |->
                JsonEntry(order[n], m[order[n]], n = Len(order))]
         \o << <<"}">> >>

FileText(fmt, m, order) ==
    IF fmt = "json" THEN JsonText(m, order) ELSE PyText(m)

-----------------------------------------------------------------------------
(* The writing block *)

\* an except clause that falls through to "return True"
WriteErrorReturnsTrue ==
    /\ stdout' = Append(stdout, "write_error")
    /\ result' = "True"
    /\ io_fault' = "write"
    /\ pc' = "done"

\* the except clause of the writing block
WriteError ==
    /\ stdout' = Append(stdout, "write_error")
    /\ result' = "False"
    /\ io_fault' = "write"
    /\ pc' = "done"

\* open(output_path, "w") creates the file or truncates it
OpenOut ==
    /\ pc = "open_out"
    /\ opens' = [opens EXCEPT !["out"] = @ + 1]
    /\ open_files' = open_files \cup {"out"}
    /\ out_file' = [exists |-> TRUE, text |-> <<>>]
    /\ pc' = "write"
    /\ UNCHANGED <<format_type, content_a, content_b, mapVars, stdout,
                   result, exit_status, io_fault>>

OpenOutFail ==
    /\ pc = "open_out"
    /\ opens' = [opens EXCEPT !["out"] = @ + 1]
    /\ WriteError
    /\ UNCHANGED <<format_type, content_a, content_b, mapVars, open_files,
                   out_file, exit_status>>

\* lines 77-90: the whole text is written, the with block closes the file
WriteOut ==
    /\ pc = "write"
    /\ out_file' = [out_file EXCEPT
                        !.text = FileText(format_type, char_map, char_order)]
    /\ open_files' = open_files \ {"out"}
    /\ stdout' = Append(stdout, "written")
    /\ result' = "True"
    /\ pc' = "done"
    /\ UNCHANGED <<format_type, content_a, content_b, mapVars, opens,
                   exit_status, io_fault>>

\* a write (or the flush at close) raises: some of the lines reached the
\* file, the with block closes it
WriteOutFail ==
    /\ pc = "write"
    /\ \E n \in 0..Len(FileText(format_type, char_map, char_order)) :
          out_file' = [out_file EXCEPT
              !.text = SubSeq(FileText(format_type, char_map, char_order), 1, n)]
    /\ open_files' = open_files \ {"out"}
    /\ WriteError
    /\ UNCHANGED <<format_type, content_a, content_b, mapVars, opens,
                   exit_status>>

\* an exit status that follows the returned value (sys.exit(0 if ok else 1))
ExitStatusOfResult(r) == IF r = "True" THEN 0 ELSE 1

\* the interpreter's exit status: 1 after an uncaught exception, else 0
\* (main drops the value create_character_mapping returns)
ExitStatus(r) == IF r = "exception" THEN 1 ELSE 0

\* line 114 returns, main returns, the interpreter exits
MainExit ==
    /\ pc = "done"
    /\ exit_status' = ExitStatus(result)
    /\ pc' = "exit"
    /\ UNCHANGED <<format_type, content_a, content_b, mapVars, ioVars,
                   stdout, result, io_fault>>

Next ==
    \/ MainCall
    \/ OpenA \/ OpenAFail \/ ReadA \/ ReadAFail
    \/ OpenB \/ OpenBFail \/ ReadB \/ ReadBFail
    \/ LenCheck
    \/ SkipNewline \/ RecordConflict \/ StoreMapping
    \/ Report
    \/ OpenOut \/ OpenOutFail \/ WriteOut \/ WriteOutFail
    \/ MainExit

Spec == Init /\ [][Next]_vars

-----------------------------------------------------------------------------
(* Vocabulary of the properties.  It is written from the texts and the     *)
(* program's position only, not with the operators of the loop.            *)

\* the reading block succeeded and lines 36-47 ran
LoopStarted ==
    /\ pc \in {"loop", "open_out", "write", "done", "exit"}
    /\ io_fault \notin {"read_a", "read_b"}

LoopOver == LoopStarted /\ pc # "loop"

Returned == pc \in {"done", "exit"}

\* the number of aligned positions
Aligned ==
    IF Len(content_a) < Len(content_b) THEN Len(content_a) ELSE Len(content_b)

\* the number of loop iterations that have run
Processed == IF pc = "loop" THEN i ELSE Aligned

NoNewlines(t) == \A p \in 1..Len(t) : t[p] # "\n"

Skipped(p) == content_a[p] = "\n" \/ content_b[p] = "\n"

\* the distinct targets seen for source character a at the positions 1..n
Observed(a, n) ==
    {content_b[p] : p \in {q \in 1..n : content_a[q] = a /\ ~Skipped(q)}}

Printed(msg) == \E n \in 1..Len(stdout) : stdout[n] = msg

-----------------------------------------------------------------------------
\* C1: for equal-length texts without newlines, after every iteration: the
\* first occurrence of a source character fixes its mapping, and every later
\* position with the same source character and a different target puts that
\* target in the character's conflict set, the mapping staying as it was.
C1_FirstSeenWins ==
    (/\ LoopStarted
     /\ Len(content_a) = Len(content_b)
     /\ NoNewlines(content_a)
     /\ NoNewlines(content_b))
    => \A p \in 1..Processed :
         (\A r \in 1..(p - 1) : content_a[r] # content_a[p]) =>
            /\ content_a[p] \in DOMAIN char_map
            /\ char_map[content_a[p]] = content_b[p]
            /\ \A q \in (p + 1)..Processed :
                 (content_a[q] = content_a[p] /\ content_b[q] # content_b[p])
                 => /\ content_a[p] \in DOMAIN conflict_chars
                    /\ content_b[q] \in conflict_chars[content_a[p]]

C1_Witness ==
    /\ LoopOver
    /\ Len(content_a) = Len(content_b)
    /\ NoNewlines(content_a)
    /\ NoNewlines(content_b)
    /\ \E p \in 1..Aligned : \E q \in (p + 1)..Aligned :
         /\ \A r \in 1..(p - 1) : content_a[r] # content_a[p]
         /\ content_a[q] = content_a[p]
         /\ content_b[q] # content_b[p]
         /\ char_map[content_a[p]] = content_b[p]
         /\ content_b[q] \in conflict_chars[content_a[p]]

\* C2: the loop step of an index where either character is a newline
\* leaves char_map and conflict_chars as they were.
C2_NewlineExclusion ==
    [][(/\ pc = "loop"
        /\ i < Aligned
        /\ (content_a[i + 1] = "\n" \/ content_b[i + 1] = "\n"))
       => (/\ char_map' = char_map
           /\ char_order' = char_order
           /\ conflict_chars' = conflict_chars)]_vars

\* the step of an index with a newline only in B has run, after a mapping
\* was stored
C2_Witness ==
    /\ pc = "loop"
    /\ i > 1
    /\ content_a[i] # "\n"
    /\ content_b[i] = "\n"
    /\ content_a[i] \in DOMAIN char_map

\* C3: after the loop, a source character has a conflict record exactly when
\* more than one distinct target was observed for it at non-skipped aligned
\* positions, and the record is the set of all those targets.
C3_ConflictRecordIsAllTargets ==
    LoopOver =>
        \A a \in CharsA :
            /\ (a \in DOMAIN conflict_chars)
                  <=> (Cardinality(Observed(a, Aligned)) > 1)
            /\ (a \in DOMAIN conflict_chars)
                  => (conflict_chars[a] = Observed(a, Aligned))

C3_Witness ==
    /\ LoopOver
    /\ \E a \in DOMAIN conflict_chars : Cardinality(conflict_chars[a]) > 2

\* C4: only the aligned positions are mapped, the length warning is printed
\* exactly when the lengths differ, and a length mismatch is no error: the
\* function fails only when an I/O operation did.
C4_LengthMismatch ==
    /\ LoopStarted =>
        /\ Printed("len_warning") <=> (Len(content_a) # Len(content_b))
        /\ \A k \in DOMAIN char_map : \E p \in 1..Aligned :
              content_a[p] = k /\ content_b[p] = char_map[k]
        /\ \A k \in DOMAIN conflict_chars : \A v \in conflict_chars[k] :
              \E p \in 1..Aligned : content_a[p] = k /\ content_b[p] = v
        /\ (Aligned = 0) => (char_map = <<>> /\ conflict_chars = <<>>)
    /\ (Returned /\ io_fault = "none") =>
        /\ result = "True"
        /\ out_file.exists
    /\ ~LoopStarted => ~Printed("len_warning")

C4_Witness ==
    /\ Returned
    /\ result = "True"
    /\ Len(content_a) > Len(content_b)
    /\ Printed("len_warning")
    /\ char_map # <<>>
    /\ content_a[Len(content_a)] \notin DOMAIN char_map

\* C5: when reading an input fails, the function has returned False, no
\* mapping was built, open() was never called on the output path and the
\* output file is untouched; when file A failed, file B was never opened.
C5_ReadErrorAborts ==
    (io_fault \in {"read_a", "read_b"}) =>
        /\ Returned
        /\ result = "False"
        /\ char_map = <<>>
        /\ conflict_chars = <<>>
        /\ opens["out"] = 0
        /\ out_file = [exists |-> FALSE, text |-> <<>>]
        /\ (io_fault = "read_a") => (opens["b"] = 0)

C5_Witness ==
    /\ io_fault = "read_b"
    /\ pc = "exit"
    /\ content_a # <<>>
    /\ opens["b"] = 1

\* C6: the function returns False exactly when a read or the write failed
\* and True otherwise, never leaves by an exception, and the warnings do
\* not change what it returns.
C6_FailuresBecomeBoolean ==
    /\ result # "exception"
    /\ Returned =>
        /\ result \in {"True", "False"}
        /\ (result = "False") <=> (io_fault # "none")
    /\ ~Returned => result = "none"

C6_Witness ==
    /\ pc = "done"
    /\ result = "False"
    /\ io_fault = "write"
    /\ Printed("len_warning")
    /\ Printed("conflict_warning")

RECURSIVE LexBody(_, _, _)
\* Reads the body of a double-quoted string literal in line from position p
\* to the closing quote, as a reader of Python source does; acc is what the
\* body denotes so far.  ok is FALSE when the literal is not well formed.
LexBody(line, p, acc) ==
    IF p > Len(line)
    THEN [ok |-> FALSE, chars |-> acc, next |-> p]
    ELSE IF line[p] = "\""
    THEN [ok |-> TRUE, chars |-> acc, next |-> p + 1]
    ELSE IF line[p] # "\\"
    THEN LexBody(line, p + 1, Append(acc, line[p]))
    ELSE IF p = Len(line)
    THEN [ok |-> FALSE, chars |-> acc, next |-> p]
    ELSE IF line[p + 1] \in {"\\", "\"", "'"}
    THEN LexBody(line, p + 2, Append(acc, line[p + 1]))
    ELSE IF line[p + 1] = "n"
    THEN LexBody(line, p + 2, Append(acc, "\n"))
    ELSE IF line[p + 1] = "t"
    THEN LexBody(line, p + 2, Append(acc, "\t"))
    ELSE [ok |-> FALSE, chars |-> acc, next |-> p]

HasAt(line, p, text) ==
    /\ p + Len(text) - 1 <= Len(line)
    /\ SubSeq(line, p, p + Len(text) - 1) = text

\* Reads a line of the form     "key": "value",
ReadEntry(line) ==
    LET bad == [ok |-> FALSE, key |-> <<>>, value |-> <<>>]
    IN  IF ~HasAt(line, 1, <<" ", " ", " ", " ", "\"">>) THEN bad
        ELSE LET k == LexBody(line, 6, <<>>)
             IN  IF ~k.ok \/ ~HasAt(line, k.next, <<":", " ", "\"">>) THEN bad
                 ELSE LET v == LexBody(line, k.next + 3, <<>>)
                      IN  IF ~v.ok \/ SubSeq(line, v.next, Len(line)) # <<",">>
                          THEN bad
                          ELSE [ok |-> TRUE, key |-> k.chars, value |-> v.chars]

PythonWritten == Returned /\ result = "True" /\ format_type = "python"

\* C7: in the python format every line of an entry is well formed, and the
\* two literals on it denote exactly a key of char_map and its value; every
\* key has its line.
C7_EscapedLiteralDenotesChar ==
    PythonWritten =>
        /\ Len(out_file.text) = Cardinality(DOMAIN char_map) + 3
        /\ \A n \in 3..(Len(out_file.text) - 1) :
              LET e == ReadEntry(out_file.text[n])
              IN  /\ e.ok
                  /\ \E k \in DOMAIN char_map :
                        e.key = <<k>> /\ e.value = <<char_map[k]>>
        /\ \A k \in DOMAIN char_map :
              \E n \in 3..(Len(out_file.text) - 1) :
                  ReadEntry(out_file.text[n]).key = <<k>>

\* the same for the mappings without a double quote
C7_HoldsWithoutDoubleQuote ==
    (PythonWritten /\ \A k \in DOMAIN char_map : k # "\"" /\ char_map[k] # "\"")
    => /\ Len(out_file.text) = Cardinality(DOMAIN char_map) + 3
       /\ \A n \in 3..(Len(out_file.text) - 1) :
              LET e == ReadEntry(out_file.text[n])
              IN  /\ e.ok
                  /\ \E k \in DOMAIN char_map :
                        e.key = <<k>> /\ e.value = <<char_map[k]>>
       /\ \A k \in DOMAIN char_map :
              \E n \in 3..(Len(out_file.text) - 1) :
                  ReadEntry(out_file.text[n]).key = <<k>>

\* C8: the process ends with exit status 0 whether create_character_mapping
\* returned True or False; a failure has printed its diagnostic.
C8_ExitStatusIgnoresResult ==
    /\ (pc = "exit") =>
        /\ exit_status = 0
        /\ result \in {"True", "False"}
        /\ (result = "False") =>
              (Printed("read_error") \/ Printed("write_error"))
    /\ (pc # "exit") => (exit_status = -1)

C8_Witness ==
    /\ pc = "exit"
    /\ result = "False"
    /\ exit_status = 0

\* C9: at most one file is open at any time, open() is called at most once
\* on each path, and no file is open once the function has returned.
C9_HandlesClosed ==
    /\ Cardinality(open_files) <= 1
    /\ \A f \in DOMAIN opens : opens[f] <= 1
    /\ Returned => (open_files = {})

\* the function has returned by the except clause after a file was opened
C9_Witness ==
    /\ pc = "done"
    /\ open_files = {}
    /\ \/ io_fault = "write" /\ out_file.exists
       \/ io_fault = "read_a" /\ opens["a"] = 1

C10_Inv ==
    /\ DOMAIN conflict_chars \subseteq DOMAIN char_map
    /\ \A k \in DOMAIN conflict_chars :
          /\ Cardinality(conflict_chars[k]) >= 2
          /\ char_map[k] \in conflict_chars[k]
          /\ "\n" \notin conflict_chars[k]
    /\ \A k \in DOMAIN char_map : k # "\n" /\ char_map[k] # "\n"

C10_Stable ==
    \A k \in DOMAIN char_map :
        k \in DOMAIN char_map' /\ char_map'[k] = char_map[k]

\* C10: after every iteration, every key of conflict_chars is a key of
\* char_map, each conflict set has at least two members and holds the
\* mapped character, no key, value or member is the newline, and a loop
\* step never changes or removes a mapping that exists.
C10_LoopInvariant == []C10_Inv /\ [][C10_Stable]_vars

C10_Witness ==
    /\ pc = "loop"
    /\ i = Aligned
    /\ conflict_chars # <<>>
    /\ Cardinality(DOMAIN char_map) > 1
====
